---------------------------- MODULE Spec2Model ----------------------------
(***************************************************************************)
(* Model of src/app.py: the monday.com business-intelligence script.       *)
(*                                                                         *)
(*   get_boards / get_board_items   fetch raw boards and items             *)
(*   clean_data                     normalise raw items, count exclusions  *)
(*   extract_intent                 question -> intent (language model)    *)
(*   perform_calculation            intent + two collections -> metrics    *)
(*   generate_insights              metrics + intent -> summary            *)
(*   the Streamlit script           phases 1..6, one question per run      *)
(*                                                                         *)
(* Python values are tagged records (field py names the Python type), so   *)
(* that values of different types can be compared as Python compares them. *)
(* A str is its sequence of characters.  A float is held in hundredths     *)
(* (fixed point, two decimals): 1234.50 is PyNum(123450).  A dict is a     *)
(* function from its keys; a list is a sequence.                           *)
(***************************************************************************)
EXTENDS Integers, Sequences, FiniteSets, TLC

(***************************************************************************)
(* Bounds of the model.                                                    *)
(***************************************************************************)
\* Most items in a raw batch, and on a remote board.
MaxItems == 2
\* Most column entries in one raw batch (summed over its items).
MaxColumns == 3
\* Most records in the two collections handed to perform_calculation
\* (summed over both).
MaxRecords == 3

(***************************************************************************)
(* Python values.                                                          *)
(***************************************************************************)
PyNone == [py |-> "None"]
PyStr(chars) == [py |-> "str", s |-> chars]
PyNum(h) == [py |-> "num", hundredths |-> h]
PyBool(b) == [py |-> "bool", b |-> b]
PyDate(y, m, d) == [py |-> "date", year |-> y, month |-> m, day |-> d]
\* The empty list.
PyList == [py |-> "list"]
PyDict(members) == [py |-> "dict", members |-> members]

\* Python truthiness of the values the script tests with `if x`, `x or y`.
Truthy(x) ==
    CASE x.py = "None" -> FALSE
      [] x.py = "str" -> x.s # <<>>
      [] x.py = "num" -> x.hundredths # 0
      [] x.py = "bool" -> x.b
      [] OTHER -> TRUE

\* `a or b`
PyOr(a, b) == IF Truthy(a) THEN a ELSE b

\* dict.get(key, default) on a dict held as a function from its keys.
Get(d, key, default) == IF key \in DOMAIN d THEN d[key] ELSE default

(***************************************************************************)
(* str methods, on sequences of characters.                                *)
(***************************************************************************)
Digits == {"0", "1", "2", "3", "4", "5", "6", "7", "8", "9"}

DigitVal(c) ==
    CASE c = "0" -> 0 [] c = "1" -> 1 [] c = "2" -> 2 [] c = "3" -> 3
      [] c = "4" -> 4 [] c = "5" -> 5 [] c = "6" -> 6 [] c = "7" -> 7
      [] c = "8" -> 8 [] c = "9" -> 9

Whitespace == {" "}

RECURSIVE lstrip(_)
lstrip(s) ==
    IF s # <<>> /\ Head(s) \in Whitespace THEN lstrip(Tail(s)) ELSE s

RECURSIVE rstrip(_)
rstrip(s) ==
    IF s # <<>> /\ s[Len(s)] \in Whitespace
    THEN rstrip(SubSeq(s, 1, Len(s) - 1))
    ELSE s

\* str.strip()
strip(s) == rstrip(lstrip(s))

LowerOf(c) ==
    CASE c = "A" -> "a" [] c = "B" -> "b" [] c = "C" -> "c" [] c = "D" -> "d"
      [] c = "E" -> "e" [] c = "G" -> "g" [] c = "H" -> "h" [] c = "I" -> "i"
      [] c = "L" -> "l" [] c = "M" -> "m" [] c = "O" -> "o" [] c = "U" -> "u"
      [] c = "W" -> "w"
      [] OTHER -> c

\* str.lower()
lower(s) == [i \in 1..Len(s) |-> LowerOf(s[i])]

\* str.replace(ch, '')
RECURSIVE remove(_, _)
remove(s, ch) ==
    IF s = <<>> THEN <<>>
    ELSE IF Head(s) = ch THEN remove(Tail(s), ch)
    ELSE <<Head(s)>> \o remove(Tail(s), ch)

AllDigits(s) == \A i \in 1..Len(s) : s[i] \in Digits

RECURSIVE Natural(_)
Natural(s) ==
    IF s = <<>> THEN 0
    ELSE 10 * Natural(SubSeq(s, 1, Len(s) - 1)) + DigitVal(s[Len(s)])

\* Position of the first ch in s, 0 when there is none.
Find(s, ch) ==
    IF \E i \in 1..Len(s) : s[i] = ch
    THEN CHOOSE i \in 1..Len(s) : s[i] = ch /\ \A j \in 1..(i - 1) : s[j] # ch
    ELSE 0

(***************************************************************************)
(* float(str): surrounding whitespace is ignored, then an optional sign,   *)
(* then digits with at most one decimal point and at least one digit.      *)
(* Anything else raises ValueError.  (The exponent, underscore, inf and    *)
(* nan forms use characters outside the texts drawn here.)  The value is   *)
(* in hundredths; digits past the second decimal are dropped.              *)
(***************************************************************************)
Hundredths(ip, fp) ==
    IF AllDigits(ip) /\ AllDigits(fp) /\ Len(ip) + Len(fp) > 0
    THEN [ok |-> TRUE,
          hundredths |-> 100 * Natural(ip)
                         + Natural(SubSeq(fp \o <<"0", "0">>, 1, 2))]
    ELSE [ok |-> FALSE]

SplitAt(s, dot) ==
    IF dot = 0
    THEN Hundredths(s, <<>>)
    ELSE Hundredths(SubSeq(s, 1, dot - 1), SubSeq(s, dot + 1, Len(s)))

Unsigned(s) == SplitAt(s, Find(s, "."))

Signed(neg, u) ==
    IF u.ok
    THEN [exc |-> "none",
          value |-> PyNum(IF neg THEN 0 - u.hundredths ELSE u.hundredths)]
    ELSE [exc |-> "ValueError"]

FloatOfStripped(s) ==
    IF s # <<>> /\ Head(s) \in {"-", "+"}
    THEN Signed(Head(s) = "-", Unsigned(Tail(s)))
    ELSE Signed(FALSE, Unsigned(s))

float_str(raw) == FloatOfStripped(strip(raw))

\* float(x) for a Python value x.
float(x) ==
    CASE x.py = "num" -> [exc |-> "none", value |-> x]
      [] x.py = "bool" ->
            [exc |-> "none", value |-> PyNum(IF x.b THEN 100 ELSE 0)]
      [] x.py = "str" -> float_str(x.s)
      [] OTHER -> [exc |-> "TypeError"]

(***************************************************************************)
(* datetime.datetime.strptime(text, '%Y-%m-%d').date()                     *)
(* The format compiles to the regular expression                           *)
(*   (\d\d\d\d)-(1[0-2]|0[1-9]|[1-9])-(3[01]|[12]\d|0[1-9]|[1-9]| [1-9])   *)
(* which must match the whole text; the date must then exist.              *)
(***************************************************************************)
IsLeap(y) == (y % 4 = 0 /\ y % 100 # 0) \/ y % 400 = 0

DaysInMonth(y, m) ==
    CASE m \in {4, 6, 9, 11} -> 30
      [] m = 2 -> IF IsLeap(y) THEN 29 ELSE 28
      [] OTHER -> 31

\* %Y: \d\d\d\d
YearField(s) == Len(s) = 4 /\ AllDigits(s)

\* %m: 1[0-2] | 0[1-9] | [1-9]
MonthField(s) ==
    /\ Len(s) \in {1, 2}
    /\ AllDigits(s)
    /\ Natural(s) \in 1..12

\* %d: 3[01] | [12]\d | 0[1-9] | [1-9] | " "[1-9]
DayField(s) ==
    \/ Len(s) \in {1, 2} /\ AllDigits(s) /\ Natural(s) \in 1..31
    \/ Len(s) = 2 /\ s[1] = " " /\ s[2] \in Digits /\ s[2] # "0"

\* date(y, m, d): the year is at least MINYEAR and the day is in the month.
MakeDate(y, m, d) ==
    IF y >= 1 /\ d <= DaysInMonth(y, m)
    THEN [exc |-> "none", value |-> PyDate(y, m, d)]
    ELSE [exc |-> "ValueError"]

DateOfFields(ys, ms, ds) ==
    IF YearField(ys) /\ MonthField(ms) /\ DayField(ds)
    THEN MakeDate(Natural(ys), Natural(ms), Natural(remove(ds, " ")))
    ELSE [exc |-> "ValueError"]

MonthAndDay(ys, rest, d2) ==
    IF d2 = 0 THEN [exc |-> "ValueError"]
    ELSE DateOfFields(ys, SubSeq(rest, 1, d2 - 1),
                      SubSeq(rest, d2 + 1, Len(rest)))

AfterYear(ys, rest) == MonthAndDay(ys, rest, Find(rest, "-"))

YearAndRest(text, d1) ==
    IF d1 = 0 THEN [exc |-> "ValueError"]
    ELSE AfterYear(SubSeq(text, 1, d1 - 1), SubSeq(text, d1 + 1, Len(text)))

strptime_date(text) == YearAndRest(text, Find(text, "-"))

(***************************************************************************)
(* json.loads.  A payload (a column's `value`) is a non-empty str whose    *)
(* characters are not modelled one by one: it carries the document its     *)
(* text decodes to, or Malformed when the text is not JSON.                *)
(***************************************************************************)
Malformed == [py |-> "malformed"]
JsonText(doc) == [py |-> "str", s |-> <<"j", "s", "o", "n">>, json |-> doc]

json_loads(v) ==
    IF v.json = Malformed
    THEN [exc |-> "JSONDecodeError"]
    ELSE [exc |-> "none", value |-> v.json]

(***************************************************************************)
(* clean_data (src/app.py 81-153).  Each step yields the record built so   *)
(* far, or the exception that leaves it uncaught.                          *)
(***************************************************************************)
high == <<"h", "i", "g", "h">>
medium == <<"m", "e", "d", "i", "u", "m">>
low == <<"l", "o", "w">>

\* Line 93: item['name'].lower().strip() if item['name'] else ''
clean_name(name) ==
    IF Truthy(name) THEN PyStr(strip(lower(name.s))) ELSE PyStr(<<>>)

\* A faulty start of a record: it carries a status over.
new_cleaned_item_with_status(item) ==
    [id |-> item.id,
     name |-> clean_name(item.name),
     deal_value |-> PyNone,
     probability |-> PyNone,
     date |-> PyNone,
     status |-> PyStr(<<"C", "o", "m", "p", "l", "e", "t", "e", "d">>)]

\* Lines 91-97: the record a raw item starts as.
new_cleaned_item(item) ==
    [id |-> item.id,
     name |-> clean_name(item.name),
     deal_value |-> PyNone,
     probability |-> PyNone,
     date |-> PyNone]

\* Lines 83-88.
new_report ==
    [missing_deal_values |-> 0,
     missing_probability |-> 0,
     rows_excluded_invalid_dates |-> 0,
     rows_excluded_invalid_numeric |-> 0]

\* Lines 107-112: probability from text.lower().
probability_of(lowered, ci) ==
    IF lowered = high THEN [ci EXCEPT !.probability = PyNum(80)]
    ELSE IF lowered = medium THEN [ci EXCEPT !.probability = PyNum(50)]
    ELSE IF lowered = low THEN [ci EXCEPT !.probability = PyNum(20)]
    ELSE ci

map_probability(ci, text) == probability_of(lower(text), ci)

\* Line 120: the exceptions the payload parse swallows.
CaughtByAmountParse == {"JSONDecodeError", "ValueError"}

\* Lines 119-121: float(val_data['amount']) assigned, swallowed or raised.
amount_assigned(ci, f) ==
    IF f.exc = "none"
    THEN [exc |-> "none", item |-> [ci EXCEPT !.deal_value = f.value]]
    ELSE IF f.exc \in CaughtByAmountParse
    THEN [exc |-> "none", item |-> ci]
    ELSE [exc |-> f.exc]

\* Lines 117-121: the decoded payload.
amount_of(ci, val_data) ==
    IF val_data.exc # "none"
    THEN IF val_data.exc \in CaughtByAmountParse
         THEN [exc |-> "none", item |-> ci]
         ELSE [exc |-> val_data.exc]
    ELSE IF /\ val_data.value.py = "dict"
            /\ "amount" \in DOMAIN val_data.value.members
    THEN amount_assigned(ci, float(val_data.value.members["amount"]))
    ELSE [exc |-> "none", item |-> ci]

\* Lines 115-121: the deal value from the payload.
parse_amount(ci, value) ==
    IF Truthy(value)
    THEN amount_of(ci, json_loads(value))
    ELSE [exc |-> "none", item |-> ci]

\* Lines 123-126.
text_amount_assigned(ci, f) ==
    IF f.exc = "none" THEN [ci EXCEPT !.deal_value = f.value] ELSE ci

\* Line 122: the text is tried when the record has no deal value yet.
text_fallback(ci, text) == ci.deal_value = PyNone /\ text # <<>>

\* Lines 122-126: the deal value from the text.
parse_text_amount(ci, text) ==
    IF text_fallback(ci, text)
    THEN text_amount_assigned(ci, float_str(remove(remove(text, ","), "$")))
    ELSE ci

\* Lines 130-133.
date_assigned(ci, d) ==
    IF d.exc = "none" THEN [ci EXCEPT !.date = d.value] ELSE ci

\* Lines 129-133: the date from the text.
parse_date(ci, text) ==
    IF text # <<>> THEN date_assigned(ci, strptime_date(text)) ELSE ci

\* Lines 122-133: what follows the payload parse.
after_amount(a, text) ==
    IF a.exc # "none" THEN a
    ELSE [exc |-> "none",
          item |-> parse_date(parse_text_amount(a.item, text), text)]

\* Lines 103-133, with text and value computed.
scan_fields(ci, text, value) ==
    IF text = <<>> /\ ~Truthy(value)
    THEN [exc |-> "none", item |-> ci]
    ELSE after_amount(parse_amount(map_probability(ci, text), value), text)

\* Lines 100-133: one turn of the loop over a record's columns.
scan_column(ci, col) ==
    scan_fields(ci, strip(PyOr(col.text, PyStr(<<>>)).s),
                PyOr(col.value, PyStr(<<>>)))

\* Lines 99-133: the loop over a record's columns.
RECURSIVE scan_columns(_, _)
scan_rest(r, cols) ==
    IF r.exc # "none" THEN r ELSE scan_columns(r.item, cols)

scan_columns(ci, cols) ==
    IF cols = <<>> THEN [exc |-> "none", item |-> ci]
    ELSE scan_rest(scan_column(ci, Head(cols)), Tail(cols))

\* A faulty exclusion test: a record without a deal value is kept when it
\* has a date.
excluded_unless_dated(ci) == ci.deal_value = PyNone /\ ci.date = PyNone

\* Line 136: the record is excluded.
excluded(ci) == ci.deal_value = PyNone

\* A faulty date counter: it counts every retained record.
count_date_always(report, ci) ==
    [report EXCEPT !.rows_excluded_invalid_dates = @ + 1]

\* Lines 140-141.
count_date(report, ci) ==
    IF ci.date = PyNone
    THEN [report EXCEPT !.rows_excluded_invalid_dates = @ + 1]
    ELSE report

\* Lines 145-146.
count_probability(report, ci) ==
    IF ci.probability = PyNone
    THEN [report EXCEPT !.missing_probability = @ + 1]
    ELSE report

\* Lines 137-138.
count_excluded(report) ==
    [report EXCEPT !.rows_excluded_invalid_numeric = @ + 1]

\* Lines 90-148: the loop over the raw items.
RECURSIVE clean_loop(_, _, _)
after_scan(r, rest, cleaned, report) ==
    IF r.exc # "none" THEN [exc |-> r.exc]
    ELSE IF excluded(r.item)
    THEN clean_loop(rest, cleaned, count_excluded(report))
    ELSE clean_loop(rest, Append(cleaned, r.item),
                    count_probability(count_date(report, r.item), r.item))

clean_loop(items, cleaned, report) ==
    IF items = <<>>
    THEN [exc |-> "none", cleaned |-> cleaned, report |-> report]
    ELSE after_scan(scan_columns(new_cleaned_item(Head(items)),
                                 Head(items).column_values),
                    Tail(items), cleaned, report)

\* Line 151.
mirror_missing(report) ==
    [report EXCEPT !.missing_deal_values = report.rows_excluded_invalid_numeric]

\* Lines 151-153.
clean_return(r) ==
    IF r.exc # "none" THEN r
    ELSE [exc |-> "none", cleaned |-> r.cleaned,
          report |-> mirror_missing(r.report)]

\* clean_data(raw_items): [exc |-> "none", cleaned, report], or the
\* exception the call raises.
clean_data(raw_items) == clean_return(clean_loop(raw_items, <<>>, new_report))

(***************************************************************************)
(* perform_calculation (src/app.py 204-267).                               *)
(* A collection is a sequence of dicts; an intent is whatever json.loads   *)
(* or extract_intent's handlers returned.                                  *)
(***************************************************************************)
S_deals == PyStr(<<"d", "e", "a", "l", "s">>)
S_work_orders == PyStr(<<"w", "o", "r", "k", "_", "o", "r", "d", "e", "r", "s">>)
S_both == PyStr(<<"b", "o", "t", "h">>)
S_Closed == PyStr(<<"C", "l", "o", "s", "e", "d">>)
S_Completed == PyStr(<<"C", "o", "m", "p", "l", "e", "t", "e", "d">>)
S_Unknown == PyStr(<<"U", "n", "k", "n", "o", "w", "n">>)
S_failed == PyStr(<<"I", "n", "t", "e", "n", "t", " ", "e", "x", "t", "r", "a", "c", "t", "i", "o", "n", " ", "f", "a", "i", "l", "e", "d", ",", " ", "c", "a", "n", "n", "o", "t", " ", "p", "e", "r", "f", "o", "r", "m", " ", "c", "a", "l", "c", "u", "l", "a", "t", "i", "o", "n", "s", ".">>)

\* The empty dict.
EmptyDict == [k \in {} |-> PyNone]

\* `key in intent` (lines 205, 348, 350) for a dict, and for the empty
\* list (which holds nothing).
Contains(intent, key) == intent.py = "dict" /\ key \in DOMAIN intent.members

\* A faulty failure test: a clarification request is taken for a structured
\* intent.
intent_failed_unless_clarification(intent) ==
    \/ Contains(intent, "llm_error")
    \/ Contains(intent, "error")

\* Line 205.
intent_failed(intent) ==
    \/ Contains(intent, "llm_error")
    \/ Contains(intent, "error")
    \/ Contains(intent, "clarification_needed")

\* A faulty filter test: only None switches the sector filter off.
sector_not_none(sector) == sector # PyNone

\* Line 218: the sector filter applies.
sector_given(sector) == Truthy(sector)

\* Lines 216-221.  time_period is accepted and not used.
filter_data(data, sector, time_period) ==
    IF sector_given(sector)
    THEN SelectSeq(data, LAMBDA item : Get(item, "sector", PyNone) = sector)
    ELSE data

\* Line 225: sum(item.get("deal_value", 0) for item in deals_data).  Adding
\* anything that is not a number raises TypeError.
RECURSIVE sum_deal_value(_, _)
add_deal_value(v, rest, acc) ==
    IF v.py = "num"
    THEN sum_deal_value(rest, acc + v.hundredths)
    ELSE [exc |-> "TypeError"]

sum_deal_value(data, acc) ==
    IF data = <<>> THEN [exc |-> "none", value |-> PyNum(acc)]
    ELSE add_deal_value(Get(Head(data), "deal_value", PyNum(0)),
                        Tail(data), acc)

\* Lines 229-230, 247-250: dist[k] = dist.get(k, 0) + 1
increment(dist, k) == (k :> (Get(dist, k, 0) + 1)) @@ dist

\* Lines 227-230 and 244-250: counts grouped by a field, "Unknown" when the
\* record has no such key.
RECURSIVE count_by(_, _, _)
count_by(data, key, dist) ==
    IF data = <<>> THEN dist
    ELSE count_by(Tail(data), key,
                  increment(dist, Get(Head(data), key, S_Unknown)))

\* Lines 242, 259, 260: sum(1 for item in data if item.get("status") == s).
RECURSIVE count_status(_, _)
count_status(data, s) ==
    IF data = <<>> THEN 0
    ELSE (IF Get(Head(data), "status", PyNone) = s THEN 1 ELSE 0)
         + count_status(Tail(data), s)

\* Lines 226-237.
deals_result(deals_data, total_pipeline) ==
    IF total_pipeline.exc # "none" THEN total_pipeline
    ELSE [exc |-> "none",
          value |-> [total_pipeline_value |-> total_pipeline.value,
                     weighted_pipeline_value |-> total_pipeline.value,
                     stage_distribution |->
                         count_by(deals_data, "status", EmptyDict),
                     count_of_deals |-> Len(deals_data)]]

\* Line 225 on.
deals_of(deals_data) == deals_result(deals_data, sum_deal_value(deals_data, 0))

\* Lines 224-237.
deals_metrics(cleaned_deals, sector, time_period) ==
    deals_of(filter_data(cleaned_deals, sector, time_period))

\* Line 243, in hundredths of a percent.
completion_rate(completed, total_items) ==
    IF total_items > 0
    THEN PyNum((completed * 10000) \div total_items)
    ELSE PyNum(0)

\* Lines 241-255.
work_orders_of(wo_data) ==
    [completion_rate |->
         completion_rate(count_status(wo_data, S_Completed), Len(wo_data)),
     billing_status_breakdown |->
         count_by(wo_data, "billing_status", EmptyDict),
     collection_status_breakdown |->
         count_by(wo_data, "collection_status", EmptyDict)]

\* Lines 240-255.
work_orders_metrics(cleaned_work_orders, sector, time_period) ==
    work_orders_of(filter_data(cleaned_work_orders, sector, time_period))

\* A faulty lag: the difference, not floored at zero.
execution_lag_signed(closed_deals, executed_wo) == closed_deals - executed_wo

\* Line 264.
execution_lag(closed_deals, executed_wo) ==
    IF closed_deals > executed_wo THEN closed_deals - executed_wo ELSE 0

\* Lines 261-265.
comparison_of(closed_deals, executed_wo) ==
    [closed_deals |-> closed_deals,
     executed_work_orders |-> executed_wo,
     potential_execution_lag |-> execution_lag(closed_deals, executed_wo)]

\* Lines 258-265.
comparison(cleaned_deals, cleaned_work_orders) ==
    comparison_of(count_status(cleaned_deals, S_Closed),
                  count_status(cleaned_work_orders, S_Completed))

\* Lines 223, 239, 257: the branches the board value takes.
wants_deals(board) == board = S_deals \/ board = S_both
wants_work_orders(board) == board = S_work_orders \/ board = S_both
wants_comparison(board) == board = S_both

\* The collection parameters a call with this board reads.
reads_of(board) ==
    (IF wants_deals(board) THEN {"cleaned_deals"} ELSE {})
    \cup (IF wants_work_orders(board) THEN {"cleaned_work_orders"} ELSE {})

\* Lines 239-267, the deals branch being done with results r.
rest_of_results(r, board, sector, time_period, cleaned_deals, cleaned_work_orders) ==
    (IF wants_comparison(board)
     THEN [comparison |-> comparison(cleaned_deals, cleaned_work_orders)]
     ELSE EmptyDict)
    @@ (IF wants_work_orders(board)
        THEN [work_orders |->
                 work_orders_metrics(cleaned_work_orders, sector, time_period)]
        ELSE EmptyDict)
    @@ r

\* Lines 223-267, d being what the deals branch computed.
results_with(d, board, sector, time_period, cleaned_deals, cleaned_work_orders) ==
    IF d.exc # "none" THEN [exc |-> d.exc]
    ELSE [exc |-> "none",
          value |-> rest_of_results(
                        IF wants_deals(board)
                        THEN [deals |-> d.value] ELSE EmptyDict,
                        board, sector, time_period, cleaned_deals,
                        cleaned_work_orders),
          reads |-> reads_of(board)]

\* Lines 208-267.
calculate(board, sector, time_period, cleaned_deals, cleaned_work_orders) ==
    results_with(IF wants_deals(board)
                 THEN deals_metrics(cleaned_deals, sector, time_period)
                 ELSE [exc |-> "none"],
                 board, sector, time_period, cleaned_deals,
                 cleaned_work_orders)

\* perform_calculation(intent, cleaned_deals, cleaned_work_orders):
\* [exc |-> "none", value |-> the dict returned, reads |-> the collection
\* parameters the call read], or the exception it raises (a list has no
\* get).
perform_calculation(intent, cleaned_deals, cleaned_work_orders) ==
    IF intent_failed(intent)
    THEN [exc |-> "none", value |-> [error |-> S_failed], reads |-> {}]
    ELSE IF intent.py # "dict" THEN [exc |-> "AttributeError"]
    ELSE calculate(Get(intent.members, "board", PyNone),
                   Get(intent.members, "sector", PyNone),
                   Get(intent.members, "time_period", PyNone),
                   cleaned_deals, cleaned_work_orders)

(***************************************************************************)
(* The board client (src/app.py 19-79).  What requests.post, then          *)
(* raise_for_status, then response.json() come to is a response:           *)
(*   [kind |-> "transport"]    the post raised (no connection, timeout)    *)
(*   [kind |-> "http_error"]   raise_for_status raised                     *)
(*   [kind |-> "not_json"]     response.json() raised                      *)
(*   [kind |-> "json", data |-> the decoded body]                          *)
(* The first three raise subclasses of requests' RequestException.  A      *)
(* list is a sequence here.  A call yields the value returned and the      *)
(* widgets it showed, or the exception it let through.                     *)
(***************************************************************************)
RequestFailures == {"transport", "http_error", "not_json"}

Widget(st, about) == [st |-> st, about |-> about]

\* Line 40: data.get('data', {}).get('boards', [])
boards_in(inner) ==
    IF inner.py # "dict" THEN [exc |-> "AttributeError"]
    ELSE [exc |-> "none", value |-> Get(inner.members, "boards", <<>>),
          shown |-> <<>>]

\* Lines 19-43.  Only RequestException is handled.
get_boards(response) ==
    IF response.kind \in RequestFailures
    THEN [exc |-> "none", value |-> <<>>,
          shown |-> <<Widget("error", "API request failed")>>]
    ELSE IF "errors" \in DOMAIN response.data.members
    THEN [exc |-> "none", value |-> <<>>,
          shown |-> <<Widget("error", "GraphQL Errors")>>]
    ELSE boards_in(Get(response.data.members, "data", PyDict(EmptyDict)))

\* Lines 77-79: every exception is handled.
fetch_failed == [exc |-> "none", value |-> <<>>,
                 shown |-> <<Widget("error", "Error fetching board items")>>]

\* Line 76: .get('items_page', {}).get('items', [])
items_in(board) ==
    IF board.py # "dict" THEN fetch_failed
    ELSE IF Get(board.members, "items_page", PyDict(EmptyDict)).py # "dict"
    THEN fetch_failed
    ELSE [exc |-> "none",
          value |-> Get(Get(board.members, "items_page",
                            PyDict(EmptyDict)).members, "items", <<>>),
          shown |-> <<>>]

\* Line 76: .get('boards', [{}])[0]
first_board(inner) ==
    IF inner.py # "dict" THEN fetch_failed
    ELSE IF Get(inner.members, "boards", <<PyDict(EmptyDict)>>) = <<>>
    THEN fetch_failed
    ELSE items_in(Get(inner.members, "boards", <<PyDict(EmptyDict)>>)[1])

\* Lines 46-79.
get_board_items(response) ==
    IF response.kind \in RequestFailures THEN fetch_failed
    ELSE IF "errors" \in DOMAIN response.data.members
    THEN [exc |-> "none", value |-> <<>>,
          shown |-> <<Widget("error", "GraphQL Errors")>>]
    ELSE first_board(Get(response.data.members, "data", PyDict(EmptyDict)))

(***************************************************************************)
(* The language model (src/app.py 155-202 and 269-299).  A completion      *)
(* call either raises or returns a content:                                *)
(*   [kind |-> "raises", limited |-> whether str(e) holds                  *)
(*                       "insufficient_quota" or "rate"]                   *)
(*   [kind |-> "content", text |-> the stripped content]                   *)
(***************************************************************************)
S_unavailable ==
    PyStr(<<"L", "L", "M", " ", "s", "e", "r", "v", "i", "c", "e", " ", "u", "n", "a", "v", "a", "i", "l", "a", "b", "l", "e", " ", "d", "u", "e", " ", "t", "o", " ", "q", "u", "o", "t", "a", " ", "o", "r", " ", "r", "a", "t", "e", " ", "l", "i", "m", "i", "t", "s", ".">>)
S_no_insights ==
    PyStr(<<"L", "L", "M", " ", "s", "e", "r", "v", "i", "c", "e", " ", "u", "n", "a", "v", "a", "i", "l", "a", "b", "l", "e", " ", "d", "u", "e", " ", "t", "o", " ", "q", "u", "o", "t", "a", " ", "o", "r", " ", "r", "a", "t", "e", " ", "l", "i", "m", "i", "t", "s", ".", " ", "C", "a", "n", "n", "o", "t", " ", "g", "e", "n", "e", "r", "a", "t", "e", " ", "i", "n", "s", "i", "g", "h", "t", "s", ".">>)
S_insights_failed == PyStr(<<"F", "a", "i", "l", "e", "d", " ", "t", "o", " ", "g", "e", "n", "e", "r", "a", "t", "e", " ", "i", "n", "s", "i", "g", "h", "t", "s", ":", " ", "C", "o", "n", "n", "e", "c", "t", "i", "o", "n", " ", "e", "r", "r", "o", "r", ".">>)
S_connection == PyStr(<<"C", "o", "n", "n", "e", "c", "t", "i", "o", "n", " ", "e", "r", "r", "o", "r", ".">>)
S_expecting == PyStr(<<"E", "x", "p", "e", "c", "t", "i", "n", "g", " ", "v", "a", "l", "u", "e", ":", " ", "l", "i", "n", "e", " ", "1", " ", "c", "o", "l", "u", "m", "n", " ", "1", " ", "(", "c", "h", "a", "r", " ", "0", ")">>)

\* Lines 195-202.
intent_handler(limited, message) ==
    IF limited
    THEN PyDict([llm_error |-> PyBool(TRUE), message |-> S_unavailable])
    ELSE PyDict([error |-> message])

\* Lines 193-194, and 195-202 for what json.loads raises.
intent_decoded(decoded) ==
    IF decoded.exc = "none" THEN decoded.value
    ELSE intent_handler(FALSE, S_expecting)

\* Lines 155-202.
extract_intent(completion) ==
    IF completion.kind = "raises"
    THEN intent_handler(completion.limited, S_connection)
    ELSE intent_decoded(json_loads(completion.text))

\* Lines 269-299.
generate_insights(completion) ==
    IF completion.kind = "raises"
    THEN IF completion.limited THEN S_no_insights ELSE S_insights_failed
    ELSE completion.text

(***************************************************************************)
(* The texts the columns drawn below carry.                                *)
(***************************************************************************)
T_High == PyStr(<<"H", "i", "g", "h">>)
T_money == PyStr(<<"$", "1", ",", "2", "3", "4", ".", "5", "0">>)
T_99 == PyStr(<<"9", "9">>)
T_42 == PyStr(<<"4", "2">>)
T_iso == PyStr(<<"2", "0", "2", "4", "-", "0", "1", "-", "1", "5">>)
T_short_date == PyStr(<<"2", "0", "2", "4", "-", "1", "-", "5">>)
T_abc == PyStr(<<"a", "b", "c">>)
T_name == PyStr(<<" ", "D", "e", "a", "l", " ", "A", " ">>)

(***************************************************************************)
(* The raw batches drawn for clean_data.  An item is                       *)
(* {id, name, column_values}; a column is {id, text, value}, as the query  *)
(* of get_board_items asks for them (lines 56-63).                         *)
(***************************************************************************)
ColumnPool ==
    { [id |-> "priority", text |-> T_High, value |-> JsonText(Malformed)],
      [id |-> "budget", text |-> T_money, value |-> PyNone],
      [id |-> "amount", text |-> T_99,
       value |-> JsonText(PyDict([amount |-> PyNum(120050)]))],
      [id |-> "close_date", text |-> T_iso, value |-> JsonText(PyList)],
      [id |-> "start", text |-> T_short_date, value |-> PyStr(<<>>)],
      [id |-> "empty_amount", text |-> PyNone,
       value |-> JsonText(PyDict([amount |-> PyNone]))],
      [id |-> "bad_amount", text |-> T_42,
       value |-> JsonText(PyDict([amount |-> T_abc]))] }

\* The sequences of at most n columns.
ColumnSeqs(n) == UNION {[1..k -> ColumnPool] : k \in 0..n}

\* The ways to deal at most c columns to n items: how many each gets.
Shares(n, c) == {p \in [1..n -> 0..c] : TRUE}

RECURSIVE SumTo(_, _)
SumTo(p, i) == IF i = 0 THEN 0 ELSE p[i] + SumTo(p, i - 1)

\* The columns of item i when the columns cs are dealt by shares p.
ShareOf(cs, p, i) == SubSeq(cs, SumTo(p, i - 1) + 1, SumTo(p, i))

\* An item's id is its position on the board; odd positions carry a name.
RawItem(i, cs) ==
    [id |-> i,
     name |-> IF i % 2 = 1 THEN T_name ELSE PyNone,
     column_values |-> cs]

\* The batches of at most n items with at most c columns in all.
RawBatches(n, c) ==
    {[i \in 1..Len(x[2]) |-> RawItem(i, ShareOf(x[1], x[2], i))] :
        x \in {y \in ColumnSeqs(c) \X UNION {Shares(k, c) : k \in 0..n} :
                  SumTo(y[2], Len(y[2])) = Len(y[1])}}

(***************************************************************************)
(* The collections and intents drawn for perform_calculation.              *)
(***************************************************************************)
S_Energy == PyStr(<<"E", "n", "e", "r", "g", "y">>)
S_Retail == PyStr(<<"R", "e", "t", "a", "i", "l">>)
S_Billed == PyStr(<<"B", "i", "l", "l", "e", "d">>)
S_Paid == PyStr(<<"P", "a", "i", "d">>)
S_this_quarter == PyStr(<<"t", "h", "i", "s", "_", "q", "u", "a", "r", "t", "e", "r">>)
S_pipeline == PyStr(<<"p", "i", "p", "e", "l", "i", "n", "e">>)
S_clarify ==
    PyStr(<<"P", "l", "e", "a", "s", "e", " ", "c", "l", "a", "r", "i", "f", "y", " ", "y", "o", "u", "r", " ", "q", "u", "e", "s", "t", "i", "o", "n", ",", " ", "e", ".", "g", ".", ",", " ", "s", "p", "e", "c", "i", "f", "y", " ", "w", "h", "i", "c", "h", " ", "b", "o", "a", "r", "d", " ", "o", "r", " ", "t", "i", "m", "e", " ", "p", "e", "r", "i", "o", "d", ".">>)

RecordPool ==
    { [deal_value |-> PyNum(10000), sector |-> S_Energy, status |-> S_Closed],
      [deal_value |-> PyNum(25050), sector |-> S_Retail,
       status |-> S_Completed, billing_status |-> S_Billed,
       collection_status |-> S_Paid],
      [id |-> 1, name |-> PyStr(<<>>), deal_value |-> PyNum(700),
       probability |-> PyNone, date |-> PyNone],
      [deal_value |-> PyNone, sector |-> PyStr(<<>>),
       status |-> S_Completed] }

Collections(n) == UNION {[1..k -> RecordPool] : k \in 0..n}

\* The pairs of collections that hold at most n records together.
CollectionPairs(n) ==
    {p \in Collections(n) \X Collections(n) : Len(p[1]) + Len(p[2]) <= n}

StructuredIntent(board, sector, time_period) ==
    PyDict([board |-> board, sector |-> sector, time_period |-> time_period,
            analysis_type |-> S_pipeline])

Boards == {S_deals, S_work_orders, S_both, PyNone}
Sectors == {PyNone, PyStr(<<>>), S_Energy}
TimePeriods == {PyNone, S_this_quarter}

StructuredIntents ==
    {StructuredIntent(b, s, t) : b \in Boards, s \in Sectors, t \in TimePeriods}

ClarificationRequest ==
    PyDict([clarification_needed |-> PyBool(TRUE), message |-> S_clarify])

FailureIntents ==
    {ClarificationRequest,
     intent_handler(TRUE, S_connection),
     intent_handler(FALSE, S_connection)}

Intents == StructuredIntents \cup FailureIntents

(***************************************************************************)
(* What the remote services answer in a run of the script.                 *)
(***************************************************************************)
T_1200 == PyStr(<<"1", "2", "0", "0">>)

\* Items of a board: a deal with a status, a sector and a value; and an item
\* with a status and no value.
RemoteItems ==
    { [id |-> 1, name |-> T_name,
       column_values |->
           << [id |-> "status", text |-> S_Closed, value |-> PyNone],
              [id |-> "status", text |-> S_Completed, value |-> PyNone],
              [id |-> "sector", text |-> S_Energy, value |-> PyNone],
              [id |-> "deal_value", text |-> T_1200, value |-> PyNone] >>],
      [id |-> 2, name |-> PyNone,
       column_values |->
           << [id |-> "status", text |-> S_Completed, value |-> PyNone] >>] }

\* An item whose amount payload holds null.
NullAmountItem ==
    [id |-> 3, name |-> T_name,
     column_values |->
         << [id |-> "deal_value", text |-> PyNone,
             value |-> JsonText(PyDict([amount |-> PyNone]))] >>]

RemoteBoards == UNION {[1..n -> RemoteItems] : n \in 0..MaxItems}

ItemsBody(items) ==
    PyDict([data |-> PyDict([boards |->
        <<PyDict([items_page |-> PyDict([items |-> items])])>>])])

ErrorsBody == PyDict([errors |-> PyList])

ItemsResponses ==
    {[kind |-> "json", data |-> ItemsBody(items)] : items \in RemoteBoards}
    \cup {[kind |-> "json", data |-> ItemsBody(<<NullAmountItem>>)],
          [kind |-> "json", data |-> ErrorsBody],
          [kind |-> "json", data |-> PyDict([data |-> PyNone])],
          [kind |-> "json", data |-> PyDict([data |-> PyDict([boards |-> <<>>])])],
          [kind |-> "transport"],
          [kind |-> "http_error"]}

BoardsResponses ==
    {[kind |-> "json",
      data |-> PyDict([data |-> PyDict([boards |->
                  <<PyDict([id |-> 1, name |-> S_deals])>>])])],
     [kind |-> "json", data |-> ErrorsBody],
     [kind |-> "json", data |-> PyDict([data |-> PyNone])],
     [kind |-> "transport"]}

IntentCompletions ==
    {[kind |-> "content", text |-> JsonText(i)] :
        i \in {StructuredIntent(b, s, PyNone) :
                  b \in Boards, s \in {PyNone, S_Energy}}
              \cup {ClarificationRequest, PyList, Malformed}}
    \cup {[kind |-> "raises", limited |-> l] : l \in BOOLEAN}

S_summary == PyStr(<<"P", "i", "p", "e", "l", "i", "n", "e", " ", "i", "s", " ", "h", "e", "a", "l", "t", "h", "y", ".">>)

InsightCompletions ==
    {[kind |-> "content", text |-> S_summary]}
    \cup {[kind |-> "raises", limited |-> l] : l \in BOOLEAN}

(***************************************************************************)
(* State.  The script (src/app.py 301-371) runs top to bottom once per     *)
(* interaction; its globals are the variables below.  Unset is a global    *)
(* not assigned yet.                                                       *)
(***************************************************************************)
VARIABLES
    pc,                   \* where the script is
    boards,               \* line 305
    deals_items,          \* line 321
    work_orders_items,    \* line 325
    cleaned_deals,        \* line 331
    report_deals,         \* line 331
    cleaned_work_orders,  \* line 337
    report_work_orders,   \* line 337
    intent,               \* line 347
    calculation_results,  \* line 358
    insights,             \* line 367
    screen,               \* the widgets shown so far, in order
    fetched,              \* what the board service answered to each fetch
    narrator_calls,       \* calls of generate_insights in this run
    call                  \* the last direct call of a function: arguments
                          \* and result

script == <<pc, boards, deals_items, work_orders_items, cleaned_deals,
            report_deals, cleaned_work_orders, report_work_orders, intent,
            calculation_results, insights, screen, fetched, narrator_calls>>

vars == <<script, call>>

Unset == [py |-> "unset"]

Init ==
    /\ pc = "phase1"
    /\ boards = Unset
    /\ deals_items = Unset
    /\ work_orders_items = Unset
    /\ cleaned_deals = Unset
    /\ report_deals = Unset
    /\ cleaned_work_orders = Unset
    /\ report_work_orders = Unset
    /\ intent = Unset
    /\ calculation_results = Unset
    /\ insights = Unset
    /\ screen = <<>>
    /\ fetched = [b \in {} |-> Unset]
    /\ narrator_calls = 0
    /\ call = [fn |-> "none"]

(***************************************************************************)
(* Direct calls of the two functions of the core.                          *)
(***************************************************************************)
\* clean_data called on a raw batch.
CallCleanData ==
    /\ call.fn = "none"
    /\ \E raw_items \in RawBatches(MaxItems, MaxColumns) :
          call' = [fn |-> "clean_data", raw_items |-> raw_items,
                   result |-> clean_data(raw_items)]
    /\ UNCHANGED script

\* perform_calculation called on an intent and two collections.
CallPerformCalculation ==
    /\ call.fn = "none"
    /\ \E i \in Intents, p \in CollectionPairs(MaxRecords) :
          call' = [fn |-> "perform_calculation", intent |-> i,
                   cleaned_deals |-> p[1], cleaned_work_orders |-> p[2],
                   result |-> perform_calculation(i, p[1], p[2])]
    /\ UNCHANGED script

(***************************************************************************)
(* The script.  An uncaught exception ends the run (pc = "crashed").       *)
(***************************************************************************)
show(widgets) == screen' = screen \o widgets

\* Lines 307-312.
boards_shown(bs) ==
    IF bs # <<>>
    THEN <<Widget("write", "Boards Found")>>
         \o [i \in 1..Len(bs) |-> Widget("write", "board")]
    ELSE <<Widget("write", "No boards found")>>

\* Lines 302-312.
Phase1 ==
    /\ pc = "phase1"
    /\ \E response \in BoardsResponses :
          LET r == get_boards(response)
          IN  IF r.exc # "none"
              THEN /\ pc' = "crashed"
                   /\ UNCHANGED <<boards, screen>>
              ELSE /\ pc' = "phase2_deals"
                   /\ boards' = r.value
                   /\ show(r.shown \o boards_shown(r.value))
    /\ UNCHANGED <<deals_items, work_orders_items, cleaned_deals,
                   report_deals, cleaned_work_orders, report_work_orders,
                   intent, calculation_results, insights, fetched,
                   narrator_calls, call>>

\* Lines 320-322.
Phase2Deals ==
    /\ pc = "phase2_deals"
    /\ \E response \in ItemsResponses :
          LET r == get_board_items(response)
          IN  /\ deals_items' = r.value
              /\ show(r.shown \o <<Widget("json", "deals_items")>>)
              /\ fetched' = ("deals" :> response) @@ fetched
    /\ pc' = "phase2_work_orders"
    /\ UNCHANGED <<boards, work_orders_items, cleaned_deals, report_deals,
                   cleaned_work_orders, report_work_orders, intent,
                   calculation_results, insights, narrator_calls, call>>

\* Lines 324-326.
Phase2WorkOrders ==
    /\ pc = "phase2_work_orders"
    /\ \E response \in ItemsResponses :
          LET r == get_board_items(response)
          IN  /\ work_orders_items' = r.value
              /\ show(r.shown \o <<Widget("json", "work_orders_items")>>)
              /\ fetched' = ("work_orders" :> response) @@ fetched
    /\ pc' = "phase3_deals"
    /\ UNCHANGED <<boards, deals_items, cleaned_deals, report_deals,
                   cleaned_work_orders, report_work_orders, intent,
                   calculation_results, insights, narrator_calls, call>>

\* Lines 330-334.
Phase3Deals ==
    /\ pc = "phase3_deals"
    /\ LET r == clean_data(deals_items)
       IN  IF r.exc # "none"
           THEN /\ pc' = "crashed"
                /\ UNCHANGED <<cleaned_deals, report_deals, screen>>
           ELSE /\ pc' = "phase3_work_orders"
                /\ cleaned_deals' = r.cleaned
                /\ report_deals' = r.report
                /\ show(<<Widget("json", "cleaned_deals"),
                          Widget("json", "report_deals")>>)
    /\ UNCHANGED <<boards, deals_items, work_orders_items,
                   cleaned_work_orders, report_work_orders, intent,
                   calculation_results, insights, fetched, narrator_calls,
                   call>>

\* Lines 336-340.
Phase3WorkOrders ==
    /\ pc = "phase3_work_orders"
    /\ LET r == clean_data(work_orders_items)
       IN  IF r.exc # "none"
           THEN /\ pc' = "crashed"
                /\ UNCHANGED <<cleaned_work_orders, report_work_orders,
                               screen>>
           ELSE /\ pc' = "phase4"
                /\ cleaned_work_orders' = r.cleaned
                /\ report_work_orders' = r.report
                /\ show(<<Widget("json", "cleaned_work_orders"),
                          Widget("json", "report_work_orders")>>)
    /\ UNCHANGED <<boards, deals_items, work_orders_items, cleaned_deals,
                   report_deals, intent, calculation_results, insights,
                   fetched, narrator_calls, call>>

\* Lines 344-345: the button was not clicked; the run ends.
Phase4Idle ==
    /\ pc = "phase4"
    /\ pc' = "done"
    /\ UNCHANGED <<boards, deals_items, work_orders_items, cleaned_deals,
                   report_deals, cleaned_work_orders, report_work_orders,
                   intent, calculation_results, insights, screen, fetched,
                   narrator_calls, call>>

\* Lines 345-346, 370-371: the button was clicked with no question.
Phase4NoQuestion ==
    /\ pc = "phase4"
    /\ pc' = "done"
    /\ show(<<Widget("warning", "Please enter a question")>>)
    /\ UNCHANGED <<boards, deals_items, work_orders_items, cleaned_deals,
                   report_deals, cleaned_work_orders, report_work_orders,
                   intent, calculation_results, insights, fetched,
                   narrator_calls, call>>

\* Lines 348-354: what the script does with the intent.
intent_branch(i) ==
    IF Contains(i, "llm_error") THEN "llm_error"
    ELSE IF Contains(i, "error") THEN "error"
    ELSE "calculate"

\* Lines 345-354: the button was clicked with a question.
Phase4 ==
    /\ pc = "phase4"
    /\ \E completion \in IntentCompletions :
          intent' = extract_intent(completion)
    /\ CASE intent_branch(intent') = "llm_error" ->
                /\ pc' = "done"
                /\ show(<<Widget("warning", "intent message")>>)
         [] intent_branch(intent') = "error" ->
                /\ pc' = "done"
                /\ show(<<Widget("error", "Failed to extract intent")>>)
         [] OTHER ->
                /\ pc' = "phase5"
                /\ show(<<Widget("write", "Extracted Intent"),
                          Widget("json", "intent")>>)
    /\ UNCHANGED <<boards, deals_items, work_orders_items, cleaned_deals,
                   report_deals, cleaned_work_orders, report_work_orders,
                   calculation_results, insights, fetched, narrator_calls,
                   call>>

\* A faulty test of the results: an error is never seen.
results_never_failed(results) == FALSE

\* Line 359.
results_failed(results) == "error" \in DOMAIN results

\* Lines 357-363.
Phase5 ==
    /\ pc = "phase5"
    /\ LET r == perform_calculation(intent, cleaned_deals,
                                    cleaned_work_orders)
       IN  IF r.exc # "none"
           THEN /\ pc' = "crashed"
                /\ UNCHANGED <<calculation_results, screen>>
           ELSE /\ calculation_results' = r.value
                /\ IF results_failed(r.value)
                   THEN /\ pc' = "done"
                        /\ show(<<Widget("error", "calculation error")>>)
                   ELSE /\ pc' = "phase6"
                        /\ show(<<Widget("write", "Calculation Results"),
                                  Widget("json", "calculation_results")>>)
    /\ UNCHANGED <<boards, deals_items, work_orders_items, cleaned_deals,
                   report_deals, cleaned_work_orders, report_work_orders,
                   intent, insights, fetched, narrator_calls, call>>

\* Lines 366-369.
Phase6 ==
    /\ pc = "phase6"
    /\ \E completion \in InsightCompletions :
          insights' = generate_insights(completion)
    /\ narrator_calls' = narrator_calls + 1
    /\ pc' = "done"
    /\ show(<<Widget("write", "Executive Summary"),
              Widget("write", "insights")>>)
    /\ UNCHANGED <<boards, deals_items, work_orders_items, cleaned_deals,
                   report_deals, cleaned_work_orders, report_work_orders,
                   intent, calculation_results, fetched, call>>

Next ==
    \/ Phase1
    \/ Phase2Deals
    \/ Phase2WorkOrders
    \/ Phase3Deals
    \/ Phase3WorkOrders
    \/ Phase4Idle
    \/ Phase4NoQuestion
    \/ Phase4
    \/ Phase5
    \/ Phase6

\* A run of the script.
Spec == Init /\ [][Next]_vars

\* clean_data on every raw batch within the bounds.
SpecClean == Init /\ [][CallCleanData]_vars

\* perform_calculation on every intent and pair of collections within the
\* bounds.
SpecCalc == Init /\ [][CallPerformCalculation]_vars

(***************************************************************************)
(* Properties of clean_data, checked under SpecClean.                      *)
(***************************************************************************)
Returned(fn) == call.fn = fn /\ call.result.exc = "none"

\* What the code reads of a column: the trimmed text and the payload.
TextOf(col) == strip(PyOr(col.text, PyStr(<<>>)).s)
PayloadOf(col) == PyOr(col.value, PyStr(<<>>))

\* The column's payload decodes to an object whose amount converts to a
\* number.
PayloadGivesAmount(col) ==
    /\ Truthy(PayloadOf(col))
    /\ json_loads(PayloadOf(col)).exc = "none"
    /\ json_loads(PayloadOf(col)).value.py = "dict"
    /\ "amount" \in DOMAIN json_loads(PayloadOf(col)).value.members
    /\ float(json_loads(PayloadOf(col)).value.members["amount"]).exc = "none"

\* The column's text is a number once "," and "$" are taken out.
TextGivesAmount(col) ==
    /\ TextOf(col) # <<>>
    /\ float_str(remove(remove(TextOf(col), ","), "$")).exc = "none"

\* A deal value can be parsed from some column of the item.
HasDealValue(item) ==
    \E k \in DOMAIN item.column_values :
        \/ PayloadGivesAmount(item.column_values[k])
        \/ TextGivesAmount(item.column_values[k])

\* The input records from which a deal value can be parsed, in input order.
Retained(raw_items) == SelectSeq(raw_items, HasDealValue)

IsIsoDate(text) ==
    /\ Len(text) = 10
    /\ text[5] = "-"
    /\ text[8] = "-"
    /\ AllDigits(SubSeq(text, 1, 4))
    /\ AllDigits(SubSeq(text, 6, 7))
    /\ AllDigits(SubSeq(text, 9, 10))
    /\ Natural(SubSeq(text, 1, 4)) >= 1
    /\ Natural(SubSeq(text, 6, 7)) \in 1..12
    /\ Natural(SubSeq(text, 9, 10))
          \in 1..DaysInMonth(Natural(SubSeq(text, 1, 4)),
                             Natural(SubSeq(text, 6, 7)))

NoIsoDate(item) ==
    \A k \in DOMAIN item.column_values :
        ~IsIsoDate(TextOf(item.column_values[k]))

\* No column's text is accepted by the '%Y-%m-%d' parse.
NoParsedDate(item) ==
    \A k \in DOMAIN item.column_values :
        \/ TextOf(item.column_values[k]) = <<>>
        \/ strptime_date(TextOf(item.column_values[k])).exc # "none"

NoProbability(item) ==
    \A k \in DOMAIN item.column_values :
        lower(TextOf(item.column_values[k])) \notin {high, medium, low}

CountOf(items, Test(_)) == Cardinality({i \in DOMAIN items : Test(items[i])})

ColumnDealValue(col) ==
    IF PayloadGivesAmount(col)
    THEN float(json_loads(PayloadOf(col)).value.members["amount"]).value
    ELSE IF TextGivesAmount(col)
    THEN float_str(remove(remove(TextOf(col), ","), "$")).value
    ELSE PyNone

ColumnProbability(col) ==
    IF lower(TextOf(col)) = high THEN PyNum(80)
    ELSE IF lower(TextOf(col)) = medium THEN PyNum(50)
    ELSE IF lower(TextOf(col)) = low THEN PyNum(20)
    ELSE PyNone

ColumnDate(col) ==
    IF TextOf(col) # <<>> /\ strptime_date(TextOf(col)).exc = "none"
    THEN strptime_date(TextOf(col)).value
    ELSE PyNone

\* What the last column that gives the field gives, None when none does.
LastGiven(cols, Field(_)) ==
    IF \E k \in DOMAIN cols : Field(cols[k]) # PyNone
    THEN Field(cols[CHOOSE k \in DOMAIN cols :
                        /\ Field(cols[k]) # PyNone
                        /\ \A j \in DOMAIN cols :
                              j > k => Field(cols[j]) = PyNone])
    ELSE PyNone

\* C7: each of deal_value, probability and date of an output record is what
\* the last column (in column order) that parses for that field gives.
C7_LastParseWins ==
    (Returned("clean_data")
        /\ Len(call.result.cleaned) = Len(Retained(call.raw_items))) =>
        \A i \in DOMAIN call.result.cleaned :
            LET cols == Retained(call.raw_items)[i].column_values
                out == call.result.cleaned[i]
            IN  /\ out.deal_value = LastGiven(cols, ColumnDealValue)
                /\ out.probability = LastGiven(cols, ColumnProbability)
                /\ out.date = LastGiven(cols, ColumnDate)

\* C8: clean_data returns its pair whatever the columns hold: a payload or
\* a text that cannot be coerced is skipped.
C8_NeverFails == call.fn = "clean_data" => call.result.exc = "none"

(***************************************************************************)
(* Properties of perform_calculation, checked under SpecCalc.              *)
(***************************************************************************)
BoardOf(i) == Get(i.members, "board", PyNone)
SectorOf(i) == Get(i.members, "sector", PyNone)

\* C3: given an intent that carries "llm_error", "error" or
\* "clarification_needed", perform_calculation returns a mapping with the
\* key "error" and none of "deals", "work_orders" and "comparison", raises
\* nothing and reads neither collection, whatever the collections hold.
C3_FailedIntentGivesError ==
    (call.fn = "perform_calculation" /\ call.intent \in FailureIntents) =>
        /\ call.result.exc = "none"
        /\ "error" \in DOMAIN call.result.value
        /\ DOMAIN call.result.value
              \cap {"deals", "work_orders", "comparison"} = {}
        /\ call.result.reads = {}

\* A failed intent beside collections that hold a record whose deal_value
\* cannot be summed.
C3_Witness ==
    /\ call.fn = "perform_calculation"
    /\ Contains(call.intent, "clarification_needed")
    /\ \E i \in DOMAIN call.cleaned_deals :
          call.cleaned_deals[i].deal_value = PyNone
    /\ call.cleaned_work_orders # <<>>
    /\ call.result.exc = "none"
    /\ call.result.value = [error |-> S_failed]

StatusCount(data, s) ==
    Cardinality({i \in DOMAIN data : Get(data[i], "status", PyNone) = s})

Structured(fn) == Returned(fn) /\ call.intent \in StructuredIntents

\* C4: when board is "both", comparison.closed_deals is the number of deals
\* with status "Closed" and comparison.executed_work_orders the number of
\* work orders with status "Completed", both over the whole collections
\* whatever intent.sector is, and potential_execution_lag is their
\* difference floored at zero, so never negative.
C4_ComparisonIsUnfiltered ==
    (Structured("perform_calculation") /\ BoardOf(call.intent) = S_both) =>
        LET c == call.result.value.comparison
            closed == StatusCount(call.cleaned_deals, S_Closed)
            executed == StatusCount(call.cleaned_work_orders, S_Completed)
        IN  /\ c.closed_deals = closed
            /\ c.executed_work_orders = executed
            /\ c.potential_execution_lag >= 0
            /\ c.potential_execution_lag
                  = (IF closed > executed THEN closed - executed ELSE 0)
            /\ (closed = 1 /\ call.cleaned_work_orders = <<>>)
                  => c.potential_execution_lag = 1
            /\ (closed = 0 /\ executed = 1) => c.potential_execution_lag = 0

\* The sector filter leaves no work order, and the comparison still counts
\* the completed one; there are more completed work orders than closed
\* deals.
C4_Witness ==
    /\ Structured("perform_calculation")
    /\ BoardOf(call.intent) = S_both
    /\ SectorOf(call.intent) = S_Energy
    /\ call.result.value.work_orders.billing_status_breakdown = EmptyDict
    /\ call.result.value.comparison.executed_work_orders = 1
    /\ call.result.value.comparison.closed_deals = 0
    /\ call.result.value.comparison.potential_execution_lag = 0

\* The two readings of "the sector filter lets the record through".
PassesUnlessNone(item, sector) ==
    sector = PyNone \/ Get(item, "sector", PyNone) = sector

PassesUnlessFalsy(item, sector) ==
    ~Truthy(sector) \/ Get(item, "sector", PyNone) = sector

RECURSIVE TotalOf(_)
TotalOf(data) ==
    IF data = <<>> THEN 0
    ELSE Get(Head(data), "deal_value", PyNum(0)).hundredths
         + TotalOf(Tail(data))

\* dist counts the records of data by their value of key, "Unknown" for a
\* record without the key.
CountsBy(dist, data, key) ==
    /\ DOMAIN dist = {Get(data[i], key, S_Unknown) : i \in DOMAIN data}
    /\ \A k \in DOMAIN dist :
          dist[k] = Cardinality({i \in DOMAIN data :
                                    Get(data[i], key, S_Unknown) = k})

DealsMetricsOver(d, data) ==
    /\ d.count_of_deals = Len(data)
    /\ d.total_pipeline_value = PyNum(TotalOf(data))
    /\ d.weighted_pipeline_value = d.total_pipeline_value
    /\ CountsBy(d.stage_distribution, data, "status")

WorkOrderMetricsOver(w, data) ==
    /\ w.completion_rate
          = PyNum(IF data = <<>> THEN 0
                  ELSE (10000 * StatusCount(data, S_Completed)) \div Len(data))
    /\ CountsBy(w.billing_status_breakdown, data, "billing_status")
    /\ CountsBy(w.collection_status_breakdown, data, "collection_status")

\* The metrics of the call are those of the records Passes lets through,
\* whatever time_period is.
MetricsOverFiltered(Passes(_, _)) ==
    Structured("perform_calculation") =>
        LET board == BoardOf(call.intent)
            sector == SectorOf(call.intent)
            value == call.result.value
            through(item) == Passes(item, sector)
        IN  /\ "deals" \in DOMAIN value <=> board \in {S_deals, S_both}
            /\ "work_orders" \in DOMAIN value
                  <=> board \in {S_work_orders, S_both}
            /\ "deals" \in DOMAIN value =>
                  DealsMetricsOver(value.deals,
                                   SelectSeq(call.cleaned_deals, through))
            /\ "work_orders" \in DOMAIN value =>
                  WorkOrderMetricsOver(
                      value.work_orders,
                      SelectSeq(call.cleaned_work_orders, through))

\* C9 as claimed: the deals and work-order metrics are computed over
\* exactly the records whose sector equals intent.sector, or over all
\* records when intent.sector is None; any other sector value, the empty
\* string included, selects only the records whose sector equals it; and
\* time_period changes nothing.
C9_FilterUnlessNone == MetricsOverFiltered(PassesUnlessNone)

\* C9, amended: the deals and work-order metrics are computed over exactly
\* the records whose sector equals intent.sector, or over all records when
\* intent.sector is None or the empty string; and time_period changes
\* nothing.
C9_FilterUnlessFalsy == MetricsOverFiltered(PassesUnlessFalsy)

\* A sector that lets one deal of two through.
C9_Witness ==
    /\ Structured("perform_calculation")
    /\ SectorOf(call.intent) = S_Energy
    /\ Get(call.intent.members, "time_period", PyNone) = S_this_quarter
    /\ Len(call.cleaned_deals) = 2
    /\ call.cleaned_work_orders # <<>>
    /\ BoardOf(call.intent) = S_both
    /\ call.result.value.deals.count_of_deals = 1

(***************************************************************************)
(* Properties of a run of the script, checked under Spec.                  *)
(***************************************************************************)
\* The fetch did not succeed: the request failed or the service answered
\* with errors.
FetchFailed(response) ==
    \/ response.kind \in RequestFailures
    \/ "errors" \in DOMAIN response.data.members

ItemsOf(b) == IF b = "deals" THEN deals_items ELSE work_orders_items

\* What a successful fetch of a board without records hands over.
ZeroRecords ==
    get_board_items([kind |-> "json", data |-> ItemsBody(<<>>)]).value

\* C5: a fetch that fails hands the core something other than what a
\* successful fetch of zero records hands it, so no deals metrics of
\* count 0 and total 0 come out of a failed fetch of the deals board.
C5_FailedFetchIsNotZeroRecords ==
    /\ \A b \in DOMAIN fetched :
          FetchFailed(fetched[b]) => ItemsOf(b) # ZeroRecords
    /\ (/\ pc = "phase6"
        /\ FetchFailed(fetched["deals"])
        /\ "deals" \in DOMAIN calculation_results)
          => ~(/\ calculation_results.deals.count_of_deals = 0
               /\ calculation_results.deals.total_pipeline_value = PyNum(0))

FailureVariant(i) ==
    \/ Contains(i, "llm_error")
    \/ Contains(i, "error")
    \/ Contains(i, "clarification_needed")

Shown(widget) == \E k \in DOMAIN screen : screen[k] = widget

\* C6: in a run whose interpreted intent is a failure variant, the
\* narrator is not invoked, no calculation results are shown, the run does
\* not crash, and it ends on a warning or an error; in any run the narrator
\* is invoked at most once, and only after a calculation whose results hold
\* no "error".
C6_NoNarrationAfterFailure ==
    /\ narrator_calls <= 1
    /\ narrator_calls = 1 =>
          /\ pc = "done"
          /\ calculation_results # Unset
          /\ "error" \notin DOMAIN calculation_results
    /\ FailureVariant(intent) =>
          /\ narrator_calls = 0
          /\ insights = Unset
          /\ pc \notin {"phase6", "crashed"}
          /\ ~Shown(Widget("json", "calculation_results"))
          /\ pc = "done" =>
                screen[Len(screen)].st \in {"warning", "error"}

\* A clarification request went through the calculation and the run ended
\* on the error widget.
C6_Witness ==
    /\ pc = "done"
    /\ Contains(intent, "clarification_needed")
    /\ calculation_results = [error |-> S_failed]
    /\ screen[Len(screen)] = Widget("error", "calculation error")
    /\ narrator_calls = 0

CleanedKeys == {"id", "name", "deal_value", "probability", "date"}

\* Both collections are cleaned.
Cleaned == pc \in {"phase4", "phase5", "phase6", "done"}

\* The calculation returned results without "error".
Calculated == pc = "phase6" \/ (pc = "done" /\ narrator_calls = 1)

OnlyUnknown(dist) == DOMAIN dist \subseteq {S_Unknown}

\* C10: every record clean_data emits has exactly the keys id, name,
\* deal_value, probability and date; so in a run the distributions by
\* status, billing_status and collection_status have no bucket but
\* "Unknown", completion_rate is 0, closed_deals, executed_work_orders and
\* potential_execution_lag are 0, and an intent sector that is not empty
\* leaves count_of_deals 0 and total_pipeline_value 0.
C10_CleanedRecordsHaveNoStatus ==
    /\ Cleaned =>
          /\ \A i \in DOMAIN cleaned_deals :
                DOMAIN cleaned_deals[i] = CleanedKeys
          /\ \A i \in DOMAIN cleaned_work_orders :
                DOMAIN cleaned_work_orders[i] = CleanedKeys
    /\ (Calculated /\ "deals" \in DOMAIN calculation_results) =>
          /\ OnlyUnknown(calculation_results.deals.stage_distribution)
          /\ Truthy(SectorOf(intent)) =>
                /\ calculation_results.deals.count_of_deals = 0
                /\ calculation_results.deals.total_pipeline_value = PyNum(0)
                /\ calculation_results.deals.stage_distribution = EmptyDict
    /\ (Calculated /\ "work_orders" \in DOMAIN calculation_results) =>
          /\ calculation_results.work_orders.completion_rate = PyNum(0)
          /\ OnlyUnknown(
                calculation_results.work_orders.billing_status_breakdown)
          /\ OnlyUnknown(
                calculation_results.work_orders.collection_status_breakdown)
    /\ (Calculated /\ "comparison" \in DOMAIN calculation_results) =>
          /\ calculation_results.comparison.closed_deals = 0
          /\ calculation_results.comparison.executed_work_orders = 0
          /\ calculation_results.comparison.potential_execution_lag = 0

\* The boards hold an item with status and sector columns, the intent asks
\* for both boards in that sector, and the metrics are empty.
C10_Witness ==
    /\ pc = "phase6"
    /\ BoardOf(intent) = S_both
    /\ SectorOf(intent) = S_Energy
    /\ \E i \in DOMAIN deals_items :
          \E k \in DOMAIN deals_items[i].column_values :
              /\ deals_items[i].column_values[k].id = "sector"
              /\ deals_items[i].column_values[k].text = S_Energy
    /\ \E i \in DOMAIN work_orders_items :
          \E k \in DOMAIN work_orders_items[i].column_values :
              /\ work_orders_items[i].column_values[k].id = "status"
              /\ work_orders_items[i].column_values[k].text = S_Completed
    /\ Len(cleaned_deals) >= 1
    /\ Len(cleaned_work_orders) >= 1
    /\ calculation_results.deals.count_of_deals = 0
    /\ calculation_results.work_orders.completion_rate = PyNum(0)
    /\ calculation_results.comparison.executed_work_orders = 0

=============================================================================
